---- MODULE Spec2Model ----
(***************************************************************************)
(* Model of the audio algebra of exame-eet-52: MonoChannel (mono.py),      *)
(* StereoSound (stereo.py) and Equalizer (filters/equalizer.py).           *)
(*                                                                         *)
(* Every Python value is a record with a `kind` field:                     *)
(*   Number   [kind, val]              an int                              *)
(*   ndarray  [kind, shape, data]      a numpy array, data in C order      *)
(*   tuple    [kind, items]            a Python tuple                      *)
(*   Mono     [kind, audio, sf]        a MonoChannel (audio is 1-D)        *)
(*   Stereo   [kind, left, right, sf]  a StereoSound                       *)
(*   Equalizer[kind, numtaps, gain, frequencies]                           *)
(*   Bool     [kind, val]   None [kind]   Other [kind] (any other object)  *)
(*   Error    [kind, type]             a raised exception                  *)
(* A sample is an exact fraction <<num, den>> in lowest terms, den > 0     *)
(* (1 is <<1, 1>>, 0.5 is <<1, 2>>).  Frequencies and decibel gains are    *)
(* integers.  A linear gain 10^(n/d) is [base, exponent |-> <<n, d>>].     *)
(* Times are given in units of 1/TimeDen second.                           *)
(***************************************************************************)
EXTENDS Integers, Sequences, FiniteSets, TLC

VARIABLES op, args, res, held

vars == <<op, args, res, held>>

(* ---------------------------- bounds ----------------------------------- *)

MaxLen == 2

MaxRate == 2

MaxHeld == 3

TimeDen == 2

(* ---------------------------- values ----------------------------------- *)

None == [kind |-> "None"]

Other == [kind |-> "Other"]

Num(n) == [kind |-> "Number", val |-> n]

Bool(b) == [kind |-> "Bool", val |-> b]

Err(t) == [kind |-> "Error", type |-> t]

Tuple(items) == [kind |-> "tuple", items |-> items]

Array1(seq) == [kind |-> "ndarray", shape |-> <<Len(seq)>>, data |-> seq]

IsErr(v) == v.kind = "Error"

IsMono(v) == v.kind = "Mono"

IsStereo(v) == v.kind = "Stereo"

Max(m, n) == IF m >= n THEN m ELSE n

Min(m, n) == IF m <= n THEN m ELSE n

(* exact fractions *)
Abs(n) == IF n < 0 THEN -n ELSE n

RECURSIVE Gcd(_, _)
Gcd(m, n) == IF n = 0 THEN m ELSE Gcd(n, m % n)

(* num/den in lowest terms, for den > 0 *)
Rat(num, den) ==
    LET g == Gcd(Abs(num), den) IN <<num \div g, den \div g>>

RatAdd(p, q) == Rat(p[1] * q[2] + q[1] * p[2], p[2] * q[2])

RatHalf(p) == Rat(p[1], 2 * p[2])

(* the integer array seq as an array of fractions *)
Ints(seq) == [i \in 1..Len(seq) |-> <<seq[i], 1>>]

(* np.zeros(n) *)
Zeros(n) == [i \in 1..n |-> <<0, 1>>]

(* elementwise a + b of two 1-D arrays of equal size *)
ArrayAdd(a, b) == [i \in 1..Len(a) |-> RatAdd(a[i], b[i])]

(* ---------------------------- MonoChannel ------------------------------ *)

MonoChannel_validate_audio(audio) ==
    IF audio.kind # "ndarray" THEN Err("TypeError")
    ELSE IF Cardinality({i \in 1..Len(audio.shape) : audio.shape[i] > 1}) > 1
              /\ ~(\A i \in 1..Len(audio.shape) : audio.shape[i] = 1)
         THEN Err("ValueError")
         ELSE Array1(audio.data)

(* MonoChannel(audio, sampling_frequency, is_length=...).  `return          *)
(* ValueError(...)` inside __init__ makes the constructor call raise        *)
(* TypeError (__init__ must return None).                                   *)
MonoChannel_init(audio, sampling_frequency, is_length) ==
    LET size == IF is_length THEN audio.val * sampling_frequency ELSE audio.val
        array == IF audio.kind = "Number"
                 THEN (IF size < 0 THEN Err("ValueError") ELSE Array1(Zeros(size)))
                 ELSE IF audio.kind # "ndarray" THEN Err("TypeError")
                 ELSE audio
    IN  IF IsErr(array) THEN array
        ELSE IF sampling_frequency <= 0 THEN Err("TypeError")
        ELSE LET flat == MonoChannel_validate_audio(array)
             IN  IF IsErr(flat) THEN flat
                 ELSE [kind |-> "Mono", audio |-> flat.data,
                       sf |-> sampling_frequency]

(* size property of either class *)
Size(sound) == IF IsStereo(sound) THEN Len(sound.left.audio) ELSE Len(sound.audio)

(* length property (size/sampling_frequency) compared as a fraction *)
SameLength(c1, c2) == Len(c1.audio) * c2.sf = Len(c2.audio) * c1.sf

(* ---------------------------- StereoSound ------------------------------ *)

(* StereoSound_init without the sampling-frequency comparison *)
StereoSound_init_no_rate_check(audio) ==
    IF audio.kind # "tuple" THEN Err("TypeError")
    ELSE LET items == audio.items IN
         IF Len(items) = 0 THEN Err("IndexError")
         ELSE IF IsMono(items[1]) /\ Len(items) = 1 THEN Err("IndexError")
         ELSE IF ~(IsMono(items[1]) /\ IsMono(items[2])) \/ Len(items) # 2
              THEN Err("ValueError")
         ELSE IF ~SameLength(items[1], items[2]) THEN Err("ValueError")
         ELSE [kind |-> "Stereo", left |-> items[1], right |-> items[2],
               sf |-> items[1].sf]

(* StereoSound(audio) for a non-Path argument; reading a .wav file is an    *)
(* external collaborator and is not modelled.                               *)
StereoSound_init(audio) ==
    IF audio.kind # "tuple" THEN Err("TypeError")
    ELSE LET items == audio.items IN
         IF Len(items) = 0 THEN Err("IndexError")
         ELSE IF IsMono(items[1]) /\ Len(items) = 1 THEN Err("IndexError")
         ELSE IF ~(IsMono(items[1]) /\ IsMono(items[2])) \/ Len(items) # 2
              THEN Err("ValueError")
         ELSE LET left_channel == items[1]
                  right_channel == items[2]
              IN  IF ~SameLength(left_channel, right_channel)
                  THEN Err("ValueError")
                  ELSE IF left_channel.sf # right_channel.sf
                  THEN Err("ValueError")
                  ELSE [kind |-> "Stereo", left |-> left_channel,
                        right |-> right_channel, sf |-> left_channel.sf]

(* ---------------------------- merge (-) -------------------------------- *)

(* MonoChannel_sub with the operands of np.concatenate swapped *)
MonoChannel_sub_swapped(self, other) ==
    IF ~(IsStereo(other) \/ IsMono(other)) THEN Err("TypeError")
    ELSE IF self.sf # other.sf THEN Err("ValueError")
    ELSE IF IsStereo(other)
    THEN StereoSound_init(Tuple(<<
             MonoChannel_init(Array1(other.left.audio \o self.audio), self.sf, TRUE),
             MonoChannel_init(Array1(other.right.audio \o self.audio), self.sf, TRUE)>>))
    ELSE MonoChannel_init(Array1(other.audio \o self.audio), self.sf, TRUE)

MonoChannel_sub(self, other) ==
    IF ~(IsStereo(other) \/ IsMono(other)) THEN Err("TypeError")
    ELSE IF self.sf # other.sf THEN Err("ValueError")
    ELSE IF IsStereo(other)
    THEN LET left_channel ==
                 MonoChannel_init(Array1(self.audio \o other.left.audio),
                                  self.sf, TRUE)
             right_channel ==
                 MonoChannel_init(Array1(self.audio \o other.right.audio),
                                  self.sf, TRUE)
         IN  IF IsErr(left_channel) THEN left_channel
             ELSE IF IsErr(right_channel) THEN right_channel
             ELSE StereoSound_init(Tuple(<<left_channel, right_channel>>))
    ELSE MonoChannel_init(Array1(self.audio \o other.audio), self.sf, TRUE)

MonoChannel_to_stereo(self) == StereoSound_init(Tuple(<<self, self>>))

(* stereo_other is bound only when other is a MonoChannel; with a           *)
(* StereoSound operand line 87 reads an unbound local.                      *)
StereoSound_sub(self, other) ==
    IF ~(IsStereo(other) \/ IsMono(other)) THEN Err("TypeError")
    ELSE IF self.sf # other.sf THEN Err("ValueError")
    ELSE IF ~IsMono(other) THEN Err("UnboundLocalError")
    ELSE LET stereo_other == MonoChannel_to_stereo(other) IN
         IF IsErr(stereo_other) THEN stereo_other
         ELSE LET left_channel == MonoChannel_sub(self.left, stereo_other.left)
                  right_channel == MonoChannel_sub(self.right, stereo_other.right)
              IN  IF IsErr(left_channel) THEN left_channel
                  ELSE IF IsErr(right_channel) THEN right_channel
                  ELSE StereoSound_init(Tuple(<<left_channel, right_channel>>))

(* ---------------------------- padding ---------------------------------- *)

(* MonoChannel_add_padding that ignores is_right_padding and pads in front *)
MonoChannel_add_padding_front(self, ammount, is_right_padding, is_lenght) ==
    LET padding_audio == MonoChannel_init(Num(ammount), self.sf, is_lenght) IN
    IF IsErr(padding_audio) THEN padding_audio
    ELSE MonoChannel_sub(padding_audio, self)

MonoChannel_add_padding(self, ammount, is_right_padding, is_lenght) ==
    LET padding_audio == MonoChannel_init(Num(ammount), self.sf, is_lenght) IN
    IF IsErr(padding_audio) THEN padding_audio
    ELSE IF is_right_padding THEN MonoChannel_sub(self, padding_audio)
    ELSE MonoChannel_sub(padding_audio, self)

StereoSound_add_padding(self, ammount, is_right_padding, is_lenght) ==
    LET padding_audio == MonoChannel_init(Num(ammount), self.sf, is_lenght) IN
    IF IsErr(padding_audio) THEN padding_audio
    ELSE IF is_right_padding THEN StereoSound_sub(self, padding_audio)
    ELSE MonoChannel_sub(padding_audio, self)

add_padding(sound, ammount, is_right_padding, is_lenght) ==
    IF IsStereo(sound)
    THEN StereoSound_add_padding(sound, ammount, is_right_padding, is_lenght)
    ELSE MonoChannel_add_padding(sound, ammount, is_right_padding, is_lenght)

(* ---------------------------- overlap (//) ----------------------------- *)

(* MonoChannel_floordiv whose right channel, for a StereoSound operand, is   *)
(* summed with the operand's left channel                                   *)
MonoChannel_floordiv_left_twice(self, other) ==
    IF ~(IsStereo(other) \/ IsMono(other)) THEN Err("TypeError")
    ELSE LET bigger_size == Max(Size(self), Size(other))
             overlapped(padded_self, padded_other) ==
                 IF IsErr(padded_self) THEN padded_self
                 ELSE IF IsErr(padded_other) THEN padded_other
                 ELSE IF IsStereo(other)
                 THEN LET left_channel ==
                              MonoChannel_init(
                                  Array1(ArrayAdd(padded_self.audio,
                                                  padded_other.left.audio)),
                                  self.sf, TRUE)
                      IN  IF IsErr(left_channel) THEN left_channel
                          ELSE StereoSound_init(
                                   Tuple(<<left_channel, left_channel>>))
                 ELSE MonoChannel_init(
                          Array1(ArrayAdd(padded_self.audio, padded_other.audio)),
                          self.sf, TRUE)
         IN  CHOOSE result \in
                 {overlapped(padded_self, padded_other) :
                      padded_self \in
                          {MonoChannel_add_padding(
                               self, bigger_size - Size(self), TRUE, FALSE)},
                      padded_other \in
                          {add_padding(
                               other, bigger_size - Size(other), TRUE, FALSE)}} :
                 TRUE

(* The sampling-frequency test only builds a message; nothing is raised.    *)
(* padded_self and padded_other are bound through singleton sets, so each   *)
(* is computed once.                                                        *)
MonoChannel_floordiv(self, other) ==
    IF ~(IsStereo(other) \/ IsMono(other)) THEN Err("TypeError")
    ELSE LET bigger_size == Max(Size(self), Size(other))
             overlapped(padded_self, padded_other) ==
                 IF IsErr(padded_self) THEN padded_self
                 ELSE IF IsErr(padded_other) THEN padded_other
                 ELSE IF IsStereo(other)
                 THEN LET left_channel ==
                              MonoChannel_init(
                                  Array1(ArrayAdd(padded_self.audio,
                                                  padded_other.left.audio)),
                                  self.sf, TRUE)
                          right_channel ==
                              MonoChannel_init(
                                  Array1(ArrayAdd(padded_self.audio,
                                                  padded_other.right.audio)),
                                  self.sf, TRUE)
                      IN  IF IsErr(left_channel) THEN left_channel
                          ELSE IF IsErr(right_channel) THEN right_channel
                          ELSE StereoSound_init(
                                   Tuple(<<left_channel, right_channel>>))
                 ELSE MonoChannel_init(
                          Array1(ArrayAdd(padded_self.audio, padded_other.audio)),
                          self.sf, TRUE)
         IN  CHOOSE result \in
                 {overlapped(padded_self, padded_other) :
                      padded_self \in
                          {MonoChannel_add_padding(
                               self, bigger_size - Size(self), TRUE, FALSE)},
                      padded_other \in
                          {add_padding(
                               other, bigger_size - Size(other), TRUE, FALSE)}} :
                 TRUE

StereoSound_floordiv(self, other) ==
    IF ~(IsStereo(other) \/ IsMono(other)) THEN Err("TypeError")
    ELSE LET bigger_size == Max(Size(self), Size(other))
             promoted(padded) ==
                 IF IsErr(padded) THEN padded
                 ELSE IF IsMono(other) THEN MonoChannel_to_stereo(padded)
                 ELSE padded
             overlapped(padded_self, padded_other) ==
                 IF IsErr(padded_self) THEN padded_self
                 ELSE IF IsErr(padded_other) THEN padded_other
                 ELSE LET left_channel ==
                              MonoChannel_init(
                                  Array1(ArrayAdd(padded_self.left.audio,
                                                  padded_other.left.audio)),
                                  self.sf, TRUE)
                          right_channel ==
                              MonoChannel_init(
                                  Array1(ArrayAdd(padded_self.right.audio,
                                                  padded_other.right.audio)),
                                  self.sf, TRUE)
                      IN  IF IsErr(left_channel) THEN left_channel
                          ELSE IF IsErr(right_channel) THEN right_channel
                          ELSE StereoSound_init(
                                   Tuple(<<left_channel, right_channel>>))
         IN  CHOOSE result \in
                 {overlapped(padded_self, padded_other) :
                      padded_self \in
                          {StereoSound_add_padding(
                               self, bigger_size - Size(self), TRUE, FALSE)},
                      padded_other \in
                          {promoted(add_padding(
                               other, bigger_size - Size(other), TRUE, FALSE))}} :
                 TRUE

(* ---------------------------- equality --------------------------------- *)

(* numpy's elementwise == on two 1-D arrays: equal sizes compare index by   *)
(* index, a size-1 array is broadcast against the other one, and np.all of  *)
(* an empty comparison is True.  Sizes that cannot be broadcast give False  *)
(* (numpy < 1.25, with a DeprecationWarning) or raise ValueError            *)
(* (numpy >= 1.25), so __eq__ yields a set of possible outcomes.            *)
ArrayEqAll(a, b) ==
    IF Len(a) = Len(b) THEN {Bool(\A i \in 1..Len(a) : a[i] = b[i])}
    ELSE IF Len(a) = 1 THEN {Bool(\A i \in 1..Len(b) : a[1] = b[i])}
    ELSE IF Len(b) = 1 THEN {Bool(\A i \in 1..Len(a) : a[i] = b[1])}
    ELSE {Bool(FALSE), Err("ValueError")}

MonoChannel_eq(self, other) ==
    IF ~IsMono(other) THEN {Bool(FALSE)}
    ELSE {IF IsErr(equal_audio) THEN equal_audio
          ELSE Bool(equal_audio.val /\ self.sf = other.sf) :
          equal_audio \in ArrayEqAll(self.audio, other.audio)}

StereoSound_eq(self, other) ==
    IF ~IsStereo(other) THEN {Bool(FALSE)}
    ELSE {IF IsErr(equal_left_channel) THEN equal_left_channel
          ELSE IF IsErr(equal_right_channel) THEN equal_right_channel
          ELSE Bool(equal_left_channel.val /\ equal_right_channel.val
                    /\ self.sf = other.sf) :
          equal_left_channel \in MonoChannel_eq(self.left, other.left),
          equal_right_channel \in MonoChannel_eq(self.right, other.right)}

(* ---------------------------- mono / stereo ---------------------------- *)

(* (left_audio + right_audio) / 2 *)
StereoSound_to_mono(self) ==
    MonoChannel_init(
        Array1([i \in 1..Len(self.left.audio) |->
                   RatHalf(RatAdd(self.left.audio[i], self.right.audio[i]))]),
        self.sf, TRUE)

StereoSound_make_channels_equal(self) ==
    LET mono == StereoSound_to_mono(self) IN
    IF IsErr(mono) THEN mono ELSE StereoSound_init(Tuple(<<mono, mono>>))

(* ---------------------------- time frames ------------------------------ *)

(* Python's seq[start:stop] with unit step; start and stop are ints or None *)
PySlice(seq, start, stop) ==
    LET n == Len(seq)
        clamp(k) == IF k < 0 THEN Max(k + n, 0) ELSE Min(k, n)
        lo == IF start.kind = "None" THEN 0 ELSE clamp(start.val)
        hi == IF stop.kind = "None" THEN n ELSE clamp(stop.val)
    IN  SubSeq(seq, lo + 1, hi)

MonoChannel_getitem(self, start, stop) ==
    MonoChannel_init(Array1(PySlice(self.audio, start, stop)), self.sf, TRUE)

(* start and stop are Numbers counting 1/TimeDen seconds; stop may be None. *)
MonoChannel_time_frame(self, start, stop) ==
    LET start_index == Num((start.val * self.sf) \div TimeDen)
        stop_index ==
            IF stop.kind = "None" THEN None
            ELSE IF stop.val * self.sf >= Len(self.audio) * TimeDen THEN None
            ELSE Num((stop.val * self.sf) \div TimeDen)
    IN  MonoChannel_getitem(self, start_index, stop_index)

StereoSound_time_frame(self, start, stop) ==
    LET left_channel == MonoChannel_time_frame(self.left, start, stop)
        right_channel == MonoChannel_time_frame(self.right, start, stop)
    IN  IF IsErr(left_channel) THEN left_channel
        ELSE IF IsErr(right_channel) THEN right_channel
        ELSE StereoSound_init(Tuple(<<left_channel, right_channel>>))

(* ---------------------------- Equalizer -------------------------------- *)

DEFAULT_NUMTAPS == 71

(* the real number base^(n/d), kept exact: 10^(0/1) is 1, 10^(-1/1) is 0.1, *)
(* 10^(12/5) is 251.1886...                                                 *)
Power(base, exponent) == [base |-> base, exponent |-> exponent]

(* np.power(10, gain_db/10) on the integers of a 1-D array *)
GainLinear(gain_db) == [i \in 1..Len(gain_db) |-> Power(10, Rat(gain_db[i], 10))]

(* np.sort of a 1-D array (insertion sort) *)
RECURSIVE InsertSorted(_, _)
InsertSorted(v, sorted) ==
    IF sorted = <<>> THEN <<v>>
    ELSE IF v <= Head(sorted) THEN <<v>> \o sorted
    ELSE <<Head(sorted)>> \o InsertSorted(v, Tail(sorted))

RECURSIVE Sort(_)
Sort(seq) == IF seq = <<>> THEN <<>> ELSE InsertSorted(Head(seq), Sort(Tail(seq)))

(* _validade_frequencies without the comparison against the sorted array *)
Equalizer_validade_frequencies_unsorted(frequencies) ==
    IF frequencies.kind # "ndarray" THEN Err("AttributeError")
    ELSE IF Len(frequencies.data) < 2 THEN Err("ValueError")
    ELSE IF frequencies.data[1] # 0 THEN Err("ValueError")
    ELSE None

(* returns None, or the error raised; frequencies is a 1-D ndarray, or a    *)
(* value without a size attribute (a Python int, any other object)          *)
Equalizer_validade_frequencies(frequencies) ==
    IF frequencies.kind # "ndarray" THEN Err("AttributeError")
    ELSE IF Len(frequencies.data) < 2 THEN Err("ValueError")
    ELSE IF frequencies.data[1] # 0 THEN Err("ValueError")
    ELSE IF \E i \in 1..Len(frequencies.data) :
                frequencies.data[i] # Sort(frequencies.data)[i]
         THEN Err("ValueError")
    ELSE None

(* Equalizer(frequencies, gain_db, numtaps).  gain_db is a 1-D ndarray or   *)
(* a Number (whose power is a numpy scalar, of size 1); any other object    *)
(* cannot be divided by 10.  The gain is computed before the frequencies    *)
(* are validated.                                                           *)
Equalizer_init(frequencies, gain_db, numtaps) ==
    IF gain_db.kind \notin {"ndarray", "Number"} THEN Err("TypeError")
    ELSE LET gain == IF gain_db.kind = "Number"
                     THEN GainLinear(<<gain_db.val>>)
                     ELSE GainLinear(gain_db.data)
             checked == Equalizer_validade_frequencies(frequencies)
         IN  IF IsErr(checked) THEN checked
             ELSE IF Len(frequencies.data) # Len(gain) THEN Err("ValueError")
             ELSE [kind |-> "Equalizer", numtaps |-> numtaps, gain |-> gain,
                   frequencies |-> frequencies.data]

(* filter_audio stops after adjusting the local frequency list: when        *)
(* nyquist <= frequencies[-1] it reads the unbound local high_frequencies,  *)
(* otherwise it falls off the end and returns None.  numtaps is not read.   *)
MonoChannel_filter_audio(self, filter) ==
    LET frequencies == filter.frequencies IN
    IF self.sf <= 2 * frequencies[Len(frequencies)]
    THEN Err("UnboundLocalError")
    ELSE None

(* ---------------------------- inputs ----------------------------------- *)

(* sample values the model draws *)
Samples == {<<0, 1>>, <<1, 1>>}

Rates == 1..MaxRate

Audios == UNION {[1..n -> Samples] : n \in 0..MaxLen}

(* arrays handed to the MonoChannel constructor: 1-D, row, column, 2x2 *)
Arrays ==
    {Array1(a) : a \in Audios}
    \cup {[kind |-> "ndarray", shape |-> <<1, Len(a)>>, data |-> a] : a \in Audios}
    \cup {[kind |-> "ndarray", shape |-> <<Len(a), 1>>, data |-> a] : a \in Audios}
    \cup {[kind |-> "ndarray", shape |-> <<2, 2>>, data |-> d] :
             d \in [1..4 -> Samples]}

FreshMono == {MonoChannel_init(Array1(a), r, TRUE) : a \in Audios, r \in Rates}

FreshStereo ==
    {s \in {StereoSound_init(Tuple(<<l, r>>)) : l, r \in FreshMono} : IsStereo(s)}

Operands == FreshMono \cup FreshStereo \cup {Other}

Times == {Num(t) : t \in -1..(MaxLen + 1)}

Frequencies ==
    {Array1(f) : f \in UNION {[1..n -> 0..2] : n \in 1..3}} \cup {Num(1), Other}

GainsDb ==
    {Array1(g) : g \in UNION {[1..n -> {-6, 0, 10}] : n \in 1..3}}
    \cup {Num(0), Other}

Numtaps == {-1, 0, 3, 70, DEFAULT_NUMTAPS}

FreshEqualizer ==
    {e \in {Equalizer_init(f, g, n) : f \in Frequencies, g \in GainsDb,
                                      n \in Numtaps} : ~IsErr(e)}

(* the sound an operation is invoked on: the one kept from the previous     *)
(* operation, or a fresh one when nothing is kept                           *)
MonoReceivers ==
    IF held = None THEN FreshMono ELSE IF IsMono(held) THEN {held} ELSE {}

StereoReceivers ==
    IF held = None THEN FreshStereo ELSE IF IsStereo(held) THEN {held} ELSE {}

Receivers == MonoReceivers \cup StereoReceivers

(* ---------------------------- operations ------------------------------- *)

Init ==
    /\ op = "idle"
    /\ args = <<>>
    /\ res = None
    /\ held = None

Call(name, arguments, result) ==
    /\ op' = name
    /\ args' = arguments
    /\ res' = result
    /\ UNCHANGED held

NewMonoChannel ==
    /\ op = "idle"
    /\ held = None
    /\ \E audio \in Arrays \cup {Num(n) : n \in -1..MaxLen} \cup {Other},
          sampling_frequency \in -1..MaxRate, is_length \in BOOLEAN :
          Call("MonoChannel", <<audio, Num(sampling_frequency), Bool(is_length)>>,
               MonoChannel_init(audio, sampling_frequency, is_length))

NewStereoSound ==
    /\ op = "idle"
    /\ held = None
    /\ \/ \E l, r \in FreshMono \cup {Other} :
              Call("StereoSound", <<Tuple(<<l, r>>)>>,
                   StereoSound_init(Tuple(<<l, r>>)))
       \/ \E n \in {0, 1, 3}, m \in {Other, CHOOSE c \in FreshMono : TRUE} :
              Call("StereoSound", <<Tuple([i \in 1..n |-> m])>>,
                   StereoSound_init(Tuple([i \in 1..n |-> m])))
       \/ Call("StereoSound", <<Other>>, StereoSound_init(Other))

Merge ==
    /\ op = "idle"
    /\ \E self \in Receivers, other \in Operands :
           Call("merge", <<self, other>>,
                IF IsStereo(self) THEN StereoSound_sub(self, other)
                ELSE MonoChannel_sub(self, other))

OverlapAdd ==
    /\ op = "idle"
    /\ \E self \in Receivers, other \in Operands :
           Call("overlapAdd", <<self, other>>,
                IF IsStereo(self) THEN StereoSound_floordiv(self, other)
                ELSE MonoChannel_floordiv(self, other))

Equals ==
    /\ op = "idle"
    /\ \E self \in Receivers, other \in Operands :
           \E result \in (IF IsStereo(self) THEN StereoSound_eq(self, other)
                          ELSE MonoChannel_eq(self, other)) :
               Call("equals", <<self, other>>, result)

Padding ==
    /\ op = "idle"
    /\ \E self \in Receivers, ammount \in -1..MaxLen,
          is_right_padding \in BOOLEAN, is_lenght \in BOOLEAN :
           Call("padding",
                <<self, Num(ammount), Bool(is_right_padding), Bool(is_lenght)>>,
                add_padding(self, ammount, is_right_padding, is_lenght))

PromoteToStereo ==
    /\ op = "idle"
    /\ \E self \in MonoReceivers :
           Call("promoteToStereo", <<self>>, MonoChannel_to_stereo(self))

ToMono ==
    /\ op = "idle"
    /\ \E self \in StereoReceivers :
           Call("toMono", <<self>>, StereoSound_to_mono(self))

CollapseToMono ==
    /\ op = "idle"
    /\ \E self \in StereoReceivers :
           Call("collapseToMono", <<self>>, StereoSound_make_channels_equal(self))

TimeFrame ==
    /\ op = "idle"
    /\ \E self \in Receivers, start \in Times, stop \in Times \cup {None} :
           Call("timeFrame", <<self, start, stop>>,
                IF IsStereo(self) THEN StereoSound_time_frame(self, start, stop)
                ELSE MonoChannel_time_frame(self, start, stop))

NewEqualizer ==
    /\ op = "idle"
    /\ held = None
    /\ \E frequencies \in Frequencies, gain_db \in GainsDb, numtaps \in Numtaps :
          Call("Equalizer", <<frequencies, gain_db, numtaps>>,
               Equalizer_init(frequencies, gain_db, numtaps))

FilterAudio ==
    /\ op = "idle"
    /\ \E self \in MonoReceivers, filter \in FreshEqualizer :
           Call("filter", <<self, filter>>, MonoChannel_filter_audio(self, filter))

(* (a - b) - c and a - (b - c), as a test would compute them *)
MergeAssoc ==
    /\ op = "idle"
    /\ held = None
    /\ \E a, b, c \in FreshMono :
          LET ab == MonoChannel_sub(a, b)
              bc == MonoChannel_sub(b, c)
          IN  Call("mergeAssoc", <<a, b, c>>,
                   Tuple(<<IF IsErr(ab) THEN ab ELSE MonoChannel_sub(ab, c),
                           IF IsErr(bc) THEN bc ELSE MonoChannel_sub(a, bc)>>))

(* audio//mono_channel == mono_channel//audio, as main() of test.py prints *)
OverlapCommute ==
    /\ op = "idle"
    /\ \E audio \in StereoReceivers, mono_channel \in FreshMono :
          \E stereo_first \in {StereoSound_floordiv(audio, mono_channel)},
             mono_first \in {MonoChannel_floordiv(mono_channel, audio)} :
              IF IsErr(stereo_first)
              THEN Call("overlapCommute", <<audio, mono_channel>>, stereo_first)
              ELSE IF IsErr(mono_first)
              THEN Call("overlapCommute", <<audio, mono_channel>>, mono_first)
              ELSE \E equal \in StereoSound_eq(stereo_first, mono_first) :
                       Call("overlapCommute", <<audio, mono_channel>>,
                            Tuple(<<stereo_first, mono_first, equal>>))

(* the result of the operation becomes the receiver of the next one *)
Keep ==
    /\ op # "idle"
    /\ IsMono(res) \/ IsStereo(res)
    /\ Size(res) <= MaxHeld
    /\ IF IsStereo(res)
       THEN \A i \in 1..Size(res) : /\ res.left.audio[i] \in Samples
                                    /\ res.right.audio[i] \in Samples
       ELSE \A i \in 1..Size(res) : res.audio[i] \in Samples
    /\ held' = res
    /\ op' = "idle"
    /\ args' = <<>>
    /\ res' = None

Drop ==
    /\ op # "idle"
    /\ held' = None
    /\ op' = "idle"
    /\ args' = <<>>
    /\ res' = None

Next ==
    \/ NewMonoChannel
    \/ NewStereoSound
    \/ Merge
    \/ OverlapAdd
    \/ Equals
    \/ Padding
    \/ PromoteToStereo
    \/ ToMono
    \/ CollapseToMono
    \/ TimeFrame
    \/ NewEqualizer
    \/ FilterAudio
    \/ MergeAssoc
    \/ OverlapCommute
    \/ Keep
    \/ Drop

Spec == Init /\ [][Next]_vars

(* ---------------------------- claims ----------------------------------- *)

IsSound(v) == IsMono(v) \/ IsStereo(v)

(* sample i of a 1-D array, 0 past its end *)
SampleAt(audio, i) == IF i <= Len(audio) THEN audio[i] ELSE <<0, 1>>

(* C1: a Stereo merged with a same-rate Stereo or Channel is the Stereo     *)
(* whose left is s.left then o.left and whose right is s.right then         *)
(* o.right (a Channel standing for both sides), and merging a Channel       *)
(* equals merging its promotion.                                            *)
C1_StereoMergeConcatenates ==
    (/\ op = "merge"
     /\ IsStereo(args[1])
     /\ IsSound(args[2])
     /\ args[1].sf = args[2].sf)
    => LET s == args[1]
           o == args[2]
           o_left == IF IsMono(o) THEN o.audio ELSE o.left.audio
           o_right == IF IsMono(o) THEN o.audio ELSE o.right.audio
       IN  /\ IsStereo(res)
           /\ res.left.audio = s.left.audio \o o_left
           /\ res.right.audio = s.right.audio \o o_right
           /\ IsMono(o) => res = StereoSound_sub(s, MonoChannel_to_stereo(o))

(* C2: overlapAdd of two sounds with different sample rates fails with a    *)
(* ValueError.                                                              *)
C2_OverlapRateMismatchFails ==
    (/\ op = "overlapAdd"
     /\ IsSound(args[2])
     /\ args[1].sf # args[2].sf)
    => res = Err("ValueError")

(* C3: Channel.equals never fails and is true exactly for a Channel with    *)
(* the same rate, the same number of samples and equal samples.             *)
C3_ChannelEqualsExact ==
    (op = "equals" /\ IsMono(args[1]))
    => res = Bool(/\ IsMono(args[2])
                  /\ args[2].sf = args[1].sf
                  /\ args[2].audio = args[1].audio)

(* C4: constructing a Channel from samples or as a zero buffer with a       *)
(* sample rate <= 0 fails with a ValueError, the error of a buffer that     *)
(* is not one-dimensional.                                                  *)
C4_NonPositiveRateValueError ==
    (/\ op = "MonoChannel"
     /\ args[1].kind \in {"ndarray", "Number"}
     /\ args[2].val <= 0)
    => res = Err("ValueError")

(* C5: filter design from an Equalizer whose numtaps is not a positive odd  *)
(* integer fails with a ValueError.                                         *)
C5_BadNumtapsRejected ==
    (/\ op = "filter"
     /\ (args[2].numtaps <= 0 \/ args[2].numtaps % 2 = 0))
    => res = Err("ValueError")

(* C6: filtering a Channel with a valid Equalizer returns a Channel of the  *)
(* same size and rate, wherever Nyquist lies.                               *)
C6_FilterKeepsSizeAndRate ==
    (/\ op = "filter"
     /\ args[2].numtaps > 0
     /\ args[2].numtaps % 2 = 1)
    => /\ IsMono(res)
       /\ Len(res.audio) = Len(args[1].audio)
       /\ res.sf = args[1].sf

(* C7: a.overlapAdd(b) of same-rate Channels is the Channel of that rate    *)
(* with max(len a, len b) samples, sample i being a[i] + b[i] with 0 past   *)
(* the end of an operand.                                                   *)
C7_OverlapAddPadsAndSums ==
    (/\ op = "overlapAdd"
     /\ IsMono(args[1])
     /\ IsMono(args[2])
     /\ args[1].sf = args[2].sf)
    => LET a == args[1].audio
           b == args[2].audio
       IN  /\ IsMono(res)
           /\ res.sf = args[1].sf
           /\ Len(res.audio) = Max(Len(a), Len(b))
           /\ \A i \in 1..Len(res.audio) :
                  res.audio[i] = RatAdd(SampleAt(a, i), SampleAt(b, i))
           /\ a = b => \A i \in 1..Len(a) :
                           res.audio[i] = Rat(2 * a[i][1], a[i][2])

C7_Witness ==
    /\ op = "overlapAdd"
    /\ IsMono(args[1])
    /\ IsMono(args[2])
    /\ args[1].sf = args[2].sf
    /\ args[1].audio = Ints(<<1, 1>>)
    /\ args[2].audio = Ints(<<1>>)
    /\ res.kind = "Mono"
    /\ res.audio = Ints(<<2, 1>>)

(* C8: for same-rate Channels (a.merge(b)).merge(c) equals                  *)
(* a.merge(b.merge(c)): the Channel of a's, then b's, then c's samples.     *)
C8_MergeAssociative ==
    (/\ op = "mergeAssoc"
     /\ args[1].sf = args[2].sf
     /\ args[2].sf = args[3].sf)
    => /\ res.items[1] = res.items[2]
       /\ IsMono(res.items[1])
       /\ res.items[1].sf = args[1].sf
       /\ res.items[1].audio = args[1].audio \o args[2].audio \o args[3].audio
       /\ Len(res.items[1].audio) =
              Len(args[1].audio) + Len(args[2].audio) + Len(args[3].audio)

C8_Witness ==
    /\ op = "mergeAssoc"
    /\ args[1].sf = args[2].sf
    /\ args[2].sf = args[3].sf
    /\ args[1].audio = Ints(<<0, 1>>)
    /\ args[2].audio = Ints(<<1>>)
    /\ args[3].audio = Ints(<<1, 0>>)
    /\ res.items[1].kind = "Mono"
    /\ res.items[1].audio = Ints(<<0, 1, 1, 1, 0>>)

StereoAligned(v) ==
    IsStereo(v) => /\ v.left.sf = v.right.sf
                   /\ Len(v.left.audio) = Len(v.right.audio)

(* C9: every Stereo produced by a sequence of pair construction, merge,     *)
(* overlapAdd, padding, promoteToStereo, collapseToMono and timeFrame has   *)
(* left and right of equal rate and equal size, and pair construction from  *)
(* Channels that differ in rate or size fails with a ValueError.            *)
C9_StereoChannelsAligned ==
    /\ StereoAligned(res)
    /\ StereoAligned(held)
    /\ (/\ op = "StereoSound"
        /\ args[1].kind = "tuple"
        /\ Len(args[1].items) = 2
        /\ IsMono(args[1].items[1])
        /\ IsMono(args[1].items[2])
        /\ \/ args[1].items[1].sf # args[1].items[2].sf
           \/ Len(args[1].items[1].audio) # Len(args[1].items[2].audio))
       => res = Err("ValueError")

C9_Witness ==
    /\ op = "overlapAdd"
    /\ IsStereo(held)
    /\ args[1] = held
    /\ IsMono(args[2])
    /\ Size(args[2]) > Size(held)
    /\ Size(held) > 0
    /\ IsStereo(res)
    /\ Size(res) = Size(args[2])

(* frequencies and gain_db are 1-D arrays *)
ValidEqualizerInput(frequencies, gain_db) ==
    /\ Len(frequencies.data) >= 2
    /\ frequencies.data[1] = 0
    /\ \A i \in 1..(Len(frequencies.data) - 1) :
           frequencies.data[i] <= frequencies.data[i + 1]
    /\ Len(frequencies.data) = Len(gain_db.data)

(* C10: Equalizer construction succeeds exactly for at least two            *)
(* frequencies that start at 0, are non-decreasing and as many as the       *)
(* gains; anything else fails with a ValueError; a constructed Equalizer    *)
(* has len(frequencies) = len(gain) >= 2.                                   *)
C10_EqualizerValidation ==
    (/\ op = "Equalizer"
     /\ args[1].kind = "ndarray"
     /\ args[2].kind = "ndarray")
    => /\ res.kind = "Equalizer" <=> ValidEqualizerInput(args[1], args[2])
       /\ ~ValidEqualizerInput(args[1], args[2]) => res = Err("ValueError")
       /\ res.kind = "Equalizer" =>
              /\ Len(res.frequencies) = Len(res.gain)
              /\ Len(res.gain) >= 2

C10_Witness ==
    /\ op = "Equalizer"
    /\ args[1] = Array1(<<0, 1, 1>>)
    /\ args[2] = Array1(<<-6, 0, 10>>)
    /\ res.kind = "Equalizer"
    /\ res.frequencies = <<0, 1, 1>>

(* C11: for a Stereo s and a Channel c of the same rate, s.overlapAdd(c)   *)
(* equals c.overlapAdd(s): both are the Stereo of max(len s, len c)         *)
(* samples whose left is s.left + c and whose right is s.right + c, each    *)
(* operand counting as 0 past its end.                                      *)
C11_StereoChannelOverlapCommutes ==
    (/\ op = "overlapCommute"
     /\ args[1].sf = args[2].sf)
    => LET s == args[1]
           c == args[2]
       IN  /\ res.kind = "tuple"
           /\ res.items[3] = Bool(TRUE)
           /\ res.items[1] = res.items[2]
           /\ IsStereo(res.items[1])
           /\ res.items[1].sf = s.sf
           /\ Len(res.items[1].left.audio) = Max(Size(s), Size(c))
           /\ Len(res.items[1].right.audio) = Max(Size(s), Size(c))
           /\ \A i \in 1..Max(Size(s), Size(c)) :
                  /\ res.items[1].left.audio[i] =
                         RatAdd(SampleAt(s.left.audio, i), SampleAt(c.audio, i))
                  /\ res.items[1].right.audio[i] =
                         RatAdd(SampleAt(s.right.audio, i), SampleAt(c.audio, i))

C11_Witness ==
    /\ op = "overlapCommute"
    /\ args[1].sf = args[2].sf
    /\ args[1].left.audio = Ints(<<1>>)
    /\ args[1].right.audio = Ints(<<0>>)
    /\ args[2].audio = Ints(<<1, 1>>)
    /\ res.kind = "tuple"
    /\ res.items[3] = Bool(TRUE)
    /\ res.items[2].left.audio = Ints(<<2, 1>>)
    /\ res.items[2].right.audio = Ints(<<1, 1>>)

====
